---------------------------- MODULE Spec2Model ----------------------------
(***************************************************************************)
(* A model of src/cnnClassifier/utils/common.py: nine file helpers         *)
(* (read_yaml, create_directories, save_json, load_json, save_bin,         *)
(* load_bin, get_size, decodeImage, encodeImageIntoBase64) acting on a     *)
(* small file system and a process-wide log.                               *)
(*                                                                         *)
(* Text and bytes are sequences of integers (code points, octets).  Python *)
(* values are records of one shape, [t, n, s, items, keys].  The JSON      *)
(* encoder and decoder, the base64 codec and the path lookup are written   *)
(* out as the libraries compute them, so that a round trip is decided by   *)
(* the computation and not by the definitions.                             *)
(***************************************************************************)
EXTENDS Integers, Sequences, FiniteSets, TLC

(***************************************************************************)
(* Bounds of the model.                                                    *)
(***************************************************************************)
\* calls made in one run of the sequential specification
MaxCalls == 2
\* length of the list handed to create_directories
MaxList == 2
\* largest file size (bytes) the get_size specification draws
MaxSize == 2600

(***************************************************************************)
(* Program constants.                                                      *)
(***************************************************************************)
\* get_size: os.path.getsize(path) / 1024
KB == 1024
\* save_json: json.dump(data, f, indent=4)
Indent == 4

(***************************************************************************)
(* Characters.  Ord is Python's ord() on the characters the model writes.  *)
(***************************************************************************)
Printable ==
  << " ", "!", "\"", "#", "$", "%", "&", "'", "(", ")", "*", "+", ",", "-",
     ".", "/", "0", "1", "2", "3", "4", "5", "6", "7", "8", "9", ":", ";",
     "<", "=", ">", "?", "@", "A", "B", "C", "D", "E", "F", "G", "H", "I",
     "J", "K", "L", "M", "N", "O", "P", "Q", "R", "S", "T", "U", "V", "W",
     "X", "Y", "Z", "[", "\\", "]", "^", "_", "grave", "a", "b", "c", "d", "e",
     "f", "g", "h", "i", "j", "k", "l", "m", "n", "o", "p", "q", "r", "s",
     "t", "u", "v", "w", "x", "y", "z", "{", "|", "}", "~" >>

Ord(c) ==
  IF c = "\n" THEN 10
  ELSE 31 + (CHOOSE i \in 1..Len(Printable) : Printable[i] = c)

\* a str literal: the code points of the characters
Str(chars) == [i \in 1..Len(chars) |-> Ord(chars[i])]

RECURSIVE Concat(_)
\* "".join(chunks)
Concat(chunks) ==
  IF chunks = << >> THEN << >> ELSE Head(chunks) \o Concat(Tail(chunks))

\* s * k
Repeat(s, k) == Concat([i \in 1..k |-> s])

IsPrefix(p, s) == Len(p) <= Len(s) /\ SubSeq(s, 1, Len(p)) = p

(***************************************************************************)
(* Python values.  t is the type; n holds an int or a bool (0/1); s a str; *)
(* items the elements of a list or tuple, or the values of a dict; keys    *)
(* the keys of a dict, in insertion order.                                 *)
(***************************************************************************)
Val(t, n, s, items, keys) ==
  [t |-> t, n |-> n, s |-> s, items |-> items, keys |-> keys]

PyNone == Val("NoneType", 0, << >>, << >>, << >>)
PyBool(b) == Val("bool", IF b THEN 1 ELSE 0, << >>, << >>, << >>)
PyInt(n) == Val("int", n, << >>, << >>, << >>)
PyStr(s) == Val("str", 0, s, << >>, << >>)
PyBytes(s) == Val("bytes", 0, s, << >>, << >>)
PyList(items) == Val("list", 0, << >>, items, << >>)
PyTuple(items) == Val("tuple", 0, << >>, items, << >>)
PyDict(keys, items) == Val("dict", 0, << >>, items, keys)
\* a value json cannot serialise (a set, an arbitrary object)
PySet == Val("set", 0, << >>, << >>, << >>)

\* a test that only [] and {} fail
TruthySized(v) == v.t \in {"list", "tuple", "dict"} => v.items # << >>

\* bool(v)
Truthy(v) ==
  CASE v.t = "NoneType" -> FALSE
    [] v.t \in {"bool", "int"} -> v.n # 0
    [] v.t \in {"str", "bytes"} -> v.s # << >>
    [] v.t \in {"list", "tuple", "dict"} -> v.items # << >>
    [] OTHER -> TRUE

RECURSIVE PyEq(_, _)
\* a == b
PyEq(a, b) ==
  CASE a.t \in {"bool", "int"} /\ b.t \in {"bool", "int"} -> a.n = b.n
    [] a.t # b.t -> FALSE
    [] a.t \in {"str", "bytes"} -> a.s = b.s
    [] a.t \in {"list", "tuple"} ->
         /\ Len(a.items) = Len(b.items)
         /\ \A i \in 1..Len(a.items) : PyEq(a.items[i], b.items[i])
    [] a.t = "dict" ->
         /\ Len(a.keys) = Len(b.keys)
         /\ \A i \in 1..Len(a.keys) :
              \E j \in 1..Len(b.keys) :
                 /\ PyEq(a.keys[i], b.keys[j])
                 /\ PyEq(a.items[i], b.items[j])
    [] OTHER -> TRUE

(***************************************************************************)
(* json.dump(data, f, indent=4): the encoder of the standard library       *)
(* (json/encoder.py, _make_iterencode), chunk by chunk.  A result is       *)
(* [chunks, ok]: the chunks yielded, and whether the encoder finished; it  *)
(* stops with a TypeError at a value or key it cannot serialise.           *)
(***************************************************************************)
RECURSIVE NatStr(_)
NatStr(n) ==
  IF n < 10 THEN << 48 + n >> ELSE NatStr(n \div 10) \o << 48 + (n % 10) >>

\* int.__repr__
IntStr(n) == IF n < 0 THEN << 45 >> \o NatStr(-n) ELSE NatStr(n)

HexChar(d) == IF d < 10 THEN 48 + d ELSE 87 + d

\* '\\u{0:04x}'.format(n)
Hex4(n) ==
  << 92, 117, HexChar((n \div 4096) % 16), HexChar((n \div 256) % 16),
     HexChar((n \div 16) % 16), HexChar(n % 16) >>

\* an encoder that escapes nothing
EncodeCharPlain(c) == << c >>

\* ESCAPE_ASCII / ESCAPE_DCT of json.encoder (ensure_ascii=True)
EncodeChar(c) ==
  CASE c = 34 -> << 92, 34 >>
    [] c = 92 -> << 92, 92 >>
    [] c = 10 -> << 92, 110 >>
    [] c = 13 -> << 92, 114 >>
    [] c = 9 -> << 92, 116 >>
    [] c = 8 -> << 92, 98 >>
    [] c = 12 -> << 92, 102 >>
    [] c >= 32 /\ c <= 126 -> << c >>
    [] OTHER -> Hex4(c)

\* py_encode_basestring_ascii
encoder(s) ==
  << 34 >> \o Concat([i \in 1..Len(s) |-> EncodeChar(s[i])]) \o << 34 >>

Prim(v) == v.t \in {"str", "NoneType", "bool", "int"}

PrimText(v) ==
  CASE v.t = "str" -> encoder(v.s)
    [] v.t = "NoneType" -> Str(<< "n", "u", "l", "l" >>)
    [] v.t = "bool" /\ v.n = 1 -> Str(<< "t", "r", "u", "e" >>)
    [] v.t = "bool" /\ v.n = 0 -> Str(<< "f", "a", "l", "s", "e" >>)
    [] v.t = "int" -> IntStr(v.n)

\* '\n' + _indent * _current_indent_level
NewlineIndent(level) == << 10 >> \o Repeat(<< 32 >>, Indent * level)

Yield(chunks) == [chunks |-> chunks, ok |-> TRUE]
RaiseTypeError(chunks) == [chunks |-> chunks, ok |-> FALSE]

\* a generator followed by another: the second runs only if the first ends
Then(a, b) == IF a.ok THEN [chunks |-> a.chunks \o b.chunks, ok |-> b.ok] ELSE a

RECURSIVE iterencode(_, _)
RECURSIVE iterencode_list(_, _)
RECURSIVE iterencode_dict(_, _)
RECURSIVE ListItems(_, _, _, _)
RECURSIVE DictItems(_, _, _, _)

\* the loop of _iterencode_list over lst[i..]
ListItems(lst, i, level, buf) ==
  IF i > Len(lst) THEN Yield(<< >>)
  ELSE LET value == lst[i]
           this == IF Prim(value) THEN Yield(<< buf \o PrimText(value) >>)
                   ELSE Then(Yield(<< buf >>), iterencode(value, level))
       IN  IF this.ok
           THEN Then(this, ListItems(lst, i + 1, level,
                                     << 44 >> \o NewlineIndent(level)))
           ELSE this

iterencode_list(lst, level) ==
  IF lst = << >> THEN Yield(<< << 91, 93 >> >>)
  ELSE Then(ListItems(lst, 1, level + 1, << 91 >> \o NewlineIndent(level + 1)),
            Yield(<< NewlineIndent(level), << 93 >> >>))

\* what a dict key becomes, or a TypeError
KeyOk(key) == key.t \in {"str", "bool", "NoneType", "int"}
KeyStr(key) == IF key.t = "str" THEN key.s ELSE PrimText(key)

\* the loop of _iterencode_dict over the items [i..]
DictItems(dct, i, level, first) ==
  IF i > Len(dct.keys) THEN Yield(<< >>)
  ELSE LET key == dct.keys[i]
           value == dct.items[i]
           sep == IF first THEN << >>
                  ELSE << << 44 >> \o NewlineIndent(level) >>
           this == IF ~KeyOk(key) THEN RaiseTypeError(<< >>)
                   ELSE Then(Yield(sep \o << encoder(KeyStr(key)), << 58, 32 >> >>),
                             IF Prim(value) THEN Yield(<< PrimText(value) >>)
                             ELSE iterencode(value, level))
       IN  IF this.ok THEN Then(this, DictItems(dct, i + 1, level, FALSE))
           ELSE this

iterencode_dict(dct, level) ==
  IF dct.keys = << >> THEN Yield(<< << 123, 125 >> >>)
  ELSE Then(Yield(<< << 123 >>, NewlineIndent(level + 1) >>),
            Then(DictItems(dct, 1, level + 1, TRUE),
                 Yield(<< NewlineIndent(level), << 125 >> >>)))

iterencode(o, level) ==
  CASE Prim(o) -> Yield(<< PrimText(o) >>)
    [] o.t \in {"list", "tuple"} -> iterencode_list(o.items, level)
    [] o.t = "dict" -> iterencode_dict(o, level)
    [] OTHER -> RaiseTypeError(<< >>)

(***************************************************************************)
(* json.load(f): the decoder of the standard library (json/decoder.py,     *)
(* json/scanner.py).  A result is [ok, val, pos]: pos is the index after   *)
(* the value.  Numbers are integers: the model writes no float.            *)
(***************************************************************************)
\* s[i:i+1], -1 for ''
At(s, i) == IF i >= 1 /\ i <= Len(s) THEN s[i] ELSE -1

Found(v, pos) == [ok |-> TRUE, val |-> v, pos |-> pos]
JSONDecodeError == [ok |-> FALSE, val |-> PyNone, pos |-> 0]

RECURSIVE SkipWs(_, _)
\* WHITESPACE.match(s, i).end()
SkipWs(s, i) == IF At(s, i) \in {32, 9, 10, 13} THEN SkipWs(s, i + 1) ELSE i

IsDigit(c) == c >= 48 /\ c <= 57
HexVal(c) ==
  CASE IsDigit(c) -> c - 48
    [] c >= 97 /\ c <= 102 -> c - 87
    [] c >= 65 /\ c <= 70 -> c - 55
    [] OTHER -> -1

\* BACKSLASH of json.decoder
Unescape(c) ==
  CASE c = 34 -> 34 [] c = 92 -> 92 [] c = 47 -> 47 [] c = 98 -> 8
    [] c = 102 -> 12 [] c = 110 -> 10 [] c = 114 -> 13 [] c = 116 -> 9
    [] OTHER -> -1

RECURSIVE scanstring(_, _, _)
\* py_scanstring, strict: s[i] is the character after the opening quote
scanstring(s, i, acc) ==
  LET c == At(s, i)
  IN  CASE c = -1 -> JSONDecodeError
        [] c = 34 -> Found(PyStr(acc), i + 1)
        [] c = 92 ->
             LET e == At(s, i + 1)
                 h == [k \in 1..4 |-> HexVal(At(s, i + 1 + k))]
             IN  CASE e = 117 ->
                        IF \E k \in 1..4 : h[k] = -1 THEN JSONDecodeError
                        ELSE scanstring(s, i + 6,
                               Append(acc, 4096 * h[1] + 256 * h[2] + 16 * h[3] + h[4]))
                   [] Unescape(e) # -1 ->
                        scanstring(s, i + 2, Append(acc, Unescape(e)))
                   [] OTHER -> JSONDecodeError
        [] c < 32 -> JSONDecodeError
        [] OTHER -> scanstring(s, i + 1, Append(acc, c))

RECURSIVE Digits(_, _)
\* the index after the digits that start at i
Digits(s, i) == IF IsDigit(At(s, i)) THEN Digits(s, i + 1) ELSE i

RECURSIVE NatVal(_)
NatVal(ds) ==
  IF ds = << >> THEN 0
  ELSE 10 * NatVal(SubSeq(ds, 1, Len(ds) - 1)) + (ds[Len(ds)] - 48)

\* NUMBER_RE: (-?(?:0|[1-9]\d*)), and int() of it
MatchNumber(s, i) ==
  LET j == IF At(s, i) = 45 THEN i + 1 ELSE i
      e == IF At(s, j) = 48 THEN j + 1 ELSE Digits(s, j)
      n == NatVal(SubSeq(s, j, e - 1))
  IN  IF e = j THEN JSONDecodeError
      ELSE Found(PyInt(IF j > i THEN -n ELSE n), e)

Literal(s, i, word) ==
  i + Len(word) - 1 <= Len(s) /\ SubSeq(s, i, i + Len(word) - 1) = word

\* dict(pairs): a repeated key keeps its place and takes the last value
DictSet(d, key, val) ==
  IF \E j \in 1..Len(d.keys) : d.keys[j] = key
  THEN LET j == CHOOSE j \in 1..Len(d.keys) : d.keys[j] = key
       IN  PyDict(d.keys, [d.items EXCEPT ![j] = val])
  ELSE PyDict(Append(d.keys, key), Append(d.items, val))

RECURSIVE scan_once(_, _)
RECURSIVE ObjectPairs(_, _, _)
RECURSIVE ArrayItems(_, _, _)

\* the loop of JSONObject: s[i] is the character after a key's opening quote
ObjectPairs(s, i, d) ==
  LET key == scanstring(s, i, << >>)
      colon == SkipWs(s, key.pos)
      value == scan_once(s, SkipWs(s, colon + 1))
      next == SkipWs(s, value.pos)
      quote == SkipWs(s, next + 1)
  IN  CASE ~key.ok -> JSONDecodeError
        [] At(s, colon) # 58 -> JSONDecodeError
        [] ~value.ok -> JSONDecodeError
        [] At(s, next) = 125 -> Found(DictSet(d, key.val, value.val), next + 1)
        [] At(s, next) # 44 -> JSONDecodeError
        [] At(s, quote) # 34 -> JSONDecodeError
        [] OTHER -> ObjectPairs(s, quote + 1, DictSet(d, key.val, value.val))

\* JSONObject: s[i] is the character after the brace
JSONObject(s, i) ==
  LET j == SkipWs(s, i)
  IN  CASE At(s, j) = 125 -> Found(PyDict(<< >>, << >>), j + 1)
        [] At(s, j) # 34 -> JSONDecodeError
        [] OTHER -> ObjectPairs(s, j + 1, PyDict(<< >>, << >>))

\* the loop of JSONArray: a value starts at s[i]
ArrayItems(s, i, acc) ==
  LET value == scan_once(s, i)
      next == SkipWs(s, value.pos)
  IN  CASE ~value.ok -> JSONDecodeError
        [] At(s, next) = 93 -> Found(PyList(Append(acc, value.val)), next + 1)
        [] At(s, next) # 44 -> JSONDecodeError
        [] OTHER -> ArrayItems(s, SkipWs(s, next + 1), Append(acc, value.val))

\* JSONArray: s[i] is the character after the bracket
JSONArray(s, i) ==
  LET j == SkipWs(s, i)
  IN  IF At(s, j) = 93 THEN Found(PyList(<< >>), j + 1)
      ELSE ArrayItems(s, j, << >>)

\* py_make_scanner._scan_once
scan_once(s, i) ==
  LET c == At(s, i)
  IN  CASE c = 34 -> scanstring(s, i + 1, << >>)
        [] c = 123 -> JSONObject(s, i + 1)
        [] c = 91 -> JSONArray(s, i + 1)
        [] c = 110 /\ Literal(s, i, Str(<< "n", "u", "l", "l" >>)) ->
             Found(PyNone, i + 4)
        [] c = 116 /\ Literal(s, i, Str(<< "t", "r", "u", "e" >>)) ->
             Found(PyBool(TRUE), i + 4)
        [] c = 102 /\ Literal(s, i, Str(<< "f", "a", "l", "s", "e" >>)) ->
             Found(PyBool(FALSE), i + 5)
        [] OTHER -> MatchNumber(s, i)

\* JSONDecoder.decode: one value, white space around it, nothing after
loads(s) ==
  LET obj == scan_once(s, SkipWs(s, 1))
  IN  IF obj.ok /\ SkipWs(s, obj.pos) = Len(s) + 1 THEN obj ELSE JSONDecodeError

(***************************************************************************)
(* base64.b64decode(imgstring) and base64.b64encode(data): the standard    *)
(* library's codec (binascii.a2b_base64, not strict, and b2a_base64).      *)
(* A decoding result is [ok, val].                                         *)
(***************************************************************************)
\* table_a2b_base64: the 6-bit value of a character, -1 outside the alphabet
B64Index(c) ==
  CASE c >= 65 /\ c <= 90 -> c - 65
    [] c >= 97 /\ c <= 122 -> c - 71
    [] c >= 48 /\ c <= 57 -> c + 4
    [] c = 43 -> 62
    [] c = 47 -> 63
    [] OTHER -> -1

\* table_b2a_base64
B64Char(v) ==
  CASE v < 26 -> 65 + v
    [] v < 52 -> 71 + v
    [] v < 62 -> v - 4
    [] v = 62 -> 43
    [] OTHER -> 47

Decoded(bytes) == [ok |-> TRUE, val |-> bytes]
DecodeError == [ok |-> FALSE, val |-> << >>]

RECURSIVE a2b_base64(_, _, _, _, _, _)
\* the loop of binascii.a2b_base64 from s[i], strict_mode false
a2b_base64(s, i, quad_pos, leftchar, pads, out) ==
  IF i > Len(s)
  THEN IF quad_pos # 0 THEN DecodeError ELSE Decoded(out)
  ELSE LET c == s[i]
           v == B64Index(c)
       IN  CASE c = 61 ->
                  IF quad_pos >= 2 /\ quad_pos + pads + 1 >= 4 THEN Decoded(out)
                  ELSE a2b_base64(s, i + 1, quad_pos, leftchar,
                                  IF quad_pos >= 2 THEN pads + 1 ELSE pads, out)
             [] v = -1 -> a2b_base64(s, i + 1, quad_pos, leftchar, pads, out)
             [] quad_pos = 0 -> a2b_base64(s, i + 1, 1, v, 0, out)
             [] quad_pos = 1 ->
                  a2b_base64(s, i + 1, 2, v % 16, 0,
                             Append(out, leftchar * 4 + v \div 16))
             [] quad_pos = 2 ->
                  a2b_base64(s, i + 1, 3, v % 4, 0,
                             Append(out, leftchar * 16 + v \div 4))
             [] OTHER ->
                  a2b_base64(s, i + 1, 0, 0, 0, Append(out, leftchar * 64 + v))

\* base64.b64decode of a str: ASCII only, then a2b_base64
b64decode(s) ==
  IF \E i \in 1..Len(s) : s[i] >= 128 THEN DecodeError
  ELSE a2b_base64(s, 1, 0, 0, 0, << >>)

RECURSIVE b64encode(_)
\* base64.b64encode: three octets to four characters, padded with '='
b64encode(b) ==
  CASE Len(b) = 0 -> << >>
    [] Len(b) = 1 ->
         << B64Char(b[1] \div 4), B64Char((b[1] % 4) * 16), 61, 61 >>
    [] Len(b) = 2 ->
         << B64Char(b[1] \div 4), B64Char((b[1] % 4) * 16 + b[2] \div 16),
            B64Char((b[2] % 16) * 4), 61 >>
    [] OTHER ->
         << B64Char(b[1] \div 4), B64Char((b[1] % 4) * 16 + b[2] \div 16),
            B64Char((b[2] % 16) * 4 + b[3] \div 64), B64Char(b[3] % 64) >>
         \o b64encode(SubSeq(b, 4, Len(b)))

(***************************************************************************)
(* A text file read: open(path) decodes the bytes.  The model's only bytes *)
(* above 0x7F are the 0x80 that starts a pickle, which no text encoding of *)
(* the platform accepts as a first byte.                                   *)
(***************************************************************************)
Decodable(bytes) == \A i \in 1..Len(bytes) : bytes[i] < 128

(***************************************************************************)
(* yaml.safe_load on the documents the model writes: a blank document, a   *)
(* flow collection as json.dump writes it, a one-line block mapping        *)
(* "key: value", or a plain scalar.  A result is [ok, val]; not ok is a    *)
(* yaml.YAMLError.                                                         *)
(***************************************************************************)
RECURSIVE Strip(_)
\* the text without white space at either end
Strip(s) ==
  CASE s = << >> -> s
    [] s[1] \in {32, 10, 13} -> Strip(Tail(s))
    [] s[Len(s)] \in {32, 10, 13} -> Strip(SubSeq(s, 1, Len(s) - 1))
    [] OTHER -> s

\* the implicit resolvers of the core schema, on a plain scalar
Resolve(s) ==
  CASE s = << >> \/ s = << 126 >> \/ s = Str(<< "n", "u", "l", "l" >>) -> PyNone
    [] s = Str(<< "t", "r", "u", "e" >>) -> PyBool(TRUE)
    [] s = Str(<< "f", "a", "l", "s", "e" >>) -> PyBool(FALSE)
    [] MatchNumber(s, 1).ok /\ MatchNumber(s, 1).pos = Len(s) + 1 ->
         MatchNumber(s, 1).val
    [] OTHER -> PyStr(s)

Loaded(v) == [ok |-> TRUE, val |-> v]
YAMLError == [ok |-> FALSE, val |-> PyNone]

\* the index of the first ": " or final ":" of a line, 0 when there is none
KeyEnd(s) ==
  LET at == {i \in 1..Len(s) : s[i] = 58 /\ (i = Len(s) \/ s[i + 1] = 32)}
  IN  IF at = {} THEN 0 ELSE CHOOSE i \in at : \A j \in at : i <= j

safe_load(text) ==
  LET s == Strip(text)
      k == KeyEnd(s)
  IN  CASE s = << >> -> Loaded(PyNone)
        [] s[1] \in {123, 91} ->
             IF loads(s).ok THEN Loaded(loads(s).val) ELSE YAMLError
        [] s[1] = 34 ->
             LET q == scanstring(s, 2, << >>)
             IN  IF q.ok /\ q.pos = Len(s) + 1 THEN Loaded(q.val) ELSE YAMLError
        [] s[1] \in {93, 125, 44, 64, 96} -> YAMLError
        [] \E i \in 1..Len(s) : s[i] = 10 -> YAMLError
        [] k > 1 ->
             Loaded(PyDict(<< Resolve(Strip(SubSeq(s, 1, k - 1))) >>,
                           << Resolve(Strip(SubSeq(s, k + 1, Len(s)))) >>))
        [] k = 1 -> YAMLError
        [] OTHER -> Loaded(Resolve(s))

(***************************************************************************)
(* ConfigBox(content) (python-box): a mapping is wrapped as it is; an      *)
(* iterable is read as key/value pairs; anything else is refused.  A       *)
(* result is [exc, val], exc "" on success.                                *)
(***************************************************************************)
Boxed(v) == [exc |-> "", val |-> v]
BoxRefused(exc) == [exc |-> exc, val |-> PyNone]

PairLen(v) == IF v.t = "str" THEN Len(v.s) ELSE Len(v.items)
PairAt(v, i) == IF v.t = "str" THEN PyStr(<< v.s[i] >>) ELSE v.items[i]

RECURSIVE BoxPairs(_, _, _)
\* for k, v in args[0]: self[k] = v
BoxPairs(items, i, d) ==
  IF i > Len(items) THEN Boxed(d)
  ELSE LET it == items[i]
       IN  CASE it.t \notin {"str", "list", "tuple", "dict"} ->
                  BoxRefused("TypeError")
             [] it.t = "dict" -> BoxRefused("TypeError")
             [] PairLen(it) # 2 -> BoxRefused("ValueError")
             [] PairAt(it, 1).t \in {"list", "dict"} -> BoxRefused("TypeError")
             [] OTHER ->
                  BoxPairs(items, i + 1, DictSet(d, PairAt(it, 1), PairAt(it, 2)))

ConfigBox(content) ==
  CASE content.t = "dict" -> Boxed(content)
    [] content.t = "str" -> BoxRefused("BoxValueError")
    [] content.t \in {"list", "tuple"} ->
         BoxPairs(content.items, 1, PyDict(<< >>, << >>))
    [] OTHER -> BoxRefused("BoxValueError")

(***************************************************************************)
(* joblib.dump / joblib.load of a plain object: a pickle stream.  The      *)
(* model pickles None, booleans and small integers; a function object      *)
(* cannot be pickled.  Results are [ok, val].                              *)
(***************************************************************************)
PyFunction == Val("function", 0, << >>, << >>, << >>)

\* PROTO 4
PickleHeader == << 128, 4 >>

Picklable(v) == v.t \in {"NoneType", "bool"} \/ (v.t = "int" /\ v.n \in 0..255)

\* NONE, NEWTRUE, NEWFALSE, BININT1 n; then STOP
PickleBody(v) ==
  CASE v.t = "NoneType" -> << 78, 46 >>
    [] v.t = "bool" /\ v.n = 1 -> << 136, 46 >>
    [] v.t = "bool" /\ v.n = 0 -> << 137, 46 >>
    [] v.t = "int" -> << 75, v.n, 46 >>

\* Unpickler.load: an optional PROTO, one object, STOP
Unpickle(bytes) ==
  LET b == IF Len(bytes) >= 2 /\ bytes[1] = 128 /\ bytes[2] <= 5
           THEN SubSeq(bytes, 3, Len(bytes)) ELSE bytes
  IN  CASE Len(b) >= 2 /\ b[1] = 78 /\ b[2] = 46 -> Loaded(PyNone)
        [] Len(b) >= 2 /\ b[1] = 136 /\ b[2] = 46 -> Loaded(PyBool(TRUE))
        [] Len(b) >= 2 /\ b[1] = 137 /\ b[2] = 46 -> Loaded(PyBool(FALSE))
        [] Len(b) >= 3 /\ b[1] = 75 /\ b[3] = 46 -> Loaded(PyInt(b[2]))
        [] OTHER -> [ok |-> FALSE, val |-> PyNone]

(***************************************************************************)
(* The file system: three paths under a writable working directory.  An    *)
(* entry is absent, a directory or a file; mode FALSE is permission 000    *)
(* (the process is not root).  System calls answer with an errno, "" for   *)
(* success.                                                                *)
(***************************************************************************)
Paths == {"d", "d/f", "g"}
Root == "."
Parent(p) == IF p = "d/f" THEN "d" ELSE Root

Absent == [kind |-> "absent", mode |-> TRUE, data |-> << >>]
Dir(mode) == [kind |-> "dir", mode |-> mode, data |-> << >>]
File(mode, data) == [kind |-> "file", mode |-> mode, data |-> data]

\* st_size of a directory depends on the file system
DirSizes == {0, 4096}

RECURSIVE Walk(_, _)
\* path resolution up to the last component
Walk(f, p) ==
  LET q == Parent(p)
  IN  IF q = Root THEN ""
      ELSE CASE Walk(f, q) # "" -> Walk(f, q)
             [] f[q].kind = "absent" -> "ENOENT"
             [] f[q].kind = "file" -> "ENOTDIR"
             [] ~f[q].mode -> "EACCES"
             [] OTHER -> ""

\* open(p) / open(p, "rb")
open_r(f, p) ==
  CASE Walk(f, p) # "" -> Walk(f, p)
    [] f[p].kind = "absent" -> "ENOENT"
    [] ~f[p].mode -> "EACCES"
    [] f[p].kind = "dir" -> "EISDIR"
    [] OTHER -> ""

\* open(p, "r+") with creation: what the file held stays
open_w_keep(f, p) ==
  CASE Walk(f, p) # "" -> [errno |-> Walk(f, p), fs |-> f]
    [] f[p].kind = "dir" -> [errno |-> "EISDIR", fs |-> f]
    [] f[p].kind = "file" /\ ~f[p].mode -> [errno |-> "EACCES", fs |-> f]
    [] f[p].kind = "file" -> [errno |-> "", fs |-> f]
    [] OTHER -> [errno |-> "", fs |-> [f EXCEPT ![p] = File(TRUE, << >>)]]

\* open(p, "w") / open(p, "wb"): creates or truncates
open_w(f, p) ==
  CASE Walk(f, p) # "" -> [errno |-> Walk(f, p), fs |-> f]
    [] f[p].kind = "dir" -> [errno |-> "EISDIR", fs |-> f]
    [] f[p].kind = "file" /\ ~f[p].mode -> [errno |-> "EACCES", fs |-> f]
    [] f[p].kind = "file" -> [errno |-> "", fs |-> [f EXCEPT ![p].data = << >>]]
    [] OTHER -> [errno |-> "", fs |-> [f EXCEPT ![p] = File(TRUE, << >>)]]

\* os.stat(p)
stat(f, p) ==
  CASE Walk(f, p) # "" -> Walk(f, p)
    [] f[p].kind = "absent" -> "ENOENT"
    [] OTHER -> ""

\* os.mkdir(p)
mkdir(f, p) ==
  CASE Walk(f, p) # "" -> [errno |-> Walk(f, p), fs |-> f]
    [] f[p].kind # "absent" -> [errno |-> "EEXIST", fs |-> f]
    [] OTHER -> [errno |-> "", fs |-> [f EXCEPT ![p] = Dir(TRUE)]]

\* os.path.exists, os.path.isdir
exists(f, p) == stat(f, p) = ""
isdir(f, p) == stat(f, p) = "" /\ f[p].kind = "dir"

RECURSIVE makedirs_strict(_, _)
\* os.makedirs(name) with exist_ok left False
makedirs_strict(f, name) ==
  LET head == Parent(name)
      up == IF head # Root /\ ~exists(f, head) THEN makedirs_strict(f, head)
            ELSE [errno |-> "", fs |-> f]
  IN  IF up.errno \notin {"", "EEXIST"} THEN up ELSE mkdir(up.fs, name)

RECURSIVE makedirs(_, _)
\* os.makedirs(name, exist_ok=True)
makedirs(f, name) ==
  LET head == Parent(name)
      up == IF head # Root /\ ~exists(f, head) THEN makedirs(f, head)
            ELSE [errno |-> "", fs |-> f]
      made == mkdir(up.fs, name)
  IN  CASE up.errno \notin {"", "EEXIST"} -> up
        [] made.errno # "" /\ isdir(up.fs, name) -> [errno |-> "", fs |-> up.fs]
        [] OTHER -> made

\* the exception class of an errno
ErrnoExc(e) ==
  CASE e = "ENOENT" -> "FileNotFoundError"
    [] e = "ENOTDIR" -> "NotADirectoryError"
    [] e = "EACCES" -> "PermissionError"
    [] e = "EISDIR" -> "IsADirectoryError"
    [] e = "EEXIST" -> "FileExistsError"

(***************************************************************************)
(* What a call does: the file system it leaves, the log entries it         *)
(* appends, the exception it raises ("" for none) and the value it         *)
(* returns.  msgPath: the exception's message names the path.  cause says  *)
(* how the exception relates to the library or OS error under it:          *)
(*   "included"  a new exception whose message quotes the error            *)
(*   "dropped"   a new exception whose message does not quote it           *)
(*   "raw"       the library's or the system's own exception               *)
(*   "own"       raised by the function or its decorator, nothing under it *)
(***************************************************************************)
Return(f, logged, ret) ==
  [fs |-> f, logged |-> logged, exc |-> "", msgPath |-> FALSE, cause |-> "",
   ret |-> ret]

Raise(f, logged, exc, msgPath, cause) ==
  [fs |-> f, logged |-> logged, exc |-> exc, msgPath |-> msgPath,
   cause |-> cause, ret |-> PyNone]

\* logger.debug in place of logger.info
InfoAsDebug(op, name) == [level |-> "DEBUG", op |-> op, path |-> name]

\* logger.info(f"... {path}")
Info(op, name) == [level |-> "INFO", op |-> op, path |-> name]

\* a pathlib.Path or a str holding a path
PathArg(ty, name) == [ty |-> ty, name |-> name]

\* @ensure_annotations: every annotated argument is an instance of its
\* annotation, else EnsureError before the body runs
ensure_annotations(typesOk, f, out) ==
  IF typesOk THEN out ELSE Raise(f, << >>, "EnsureError", FALSE, "own")

\* try block of read_yaml
read_yaml_try(f, name) ==
  LET e == open_r(f, name)
      content == safe_load(f[name].data)
      box == ConfigBox(content.val)
      logged == << Info("read_yaml", name) >>
  IN  CASE e = "ENOENT" -> Raise(f, << >>, "FileNotFoundError", TRUE, "dropped")
        [] e # "" -> Raise(f, << >>, ErrnoExc(e), TRUE, "raw")
        [] ~Decodable(f[name].data) ->
             Raise(f, << >>, "UnicodeDecodeError", FALSE, "raw")
        [] ~content.ok -> Raise(f, << >>, "ValueError", TRUE, "included")
        [] ~Truthy(content.val) -> Raise(f, << >>, "ValueError", TRUE, "own")
        [] box.exc # "" -> Raise(f, logged, box.exc, FALSE, "raw")
        [] OTHER -> Return(f, logged, box.val)

read_yaml_call(f, path) ==
  ensure_annotations(path.ty = "Path", f, read_yaml_try(f, path.name))

RECURSIVE create_directories_loop(_, _, _, _, _)
\* for path in path_to_directories, from the i-th on
create_directories_loop(f, names, verbose, i, logged) ==
  IF i > Len(names) THEN Return(f, logged, PyNone)
  ELSE LET made == makedirs(f, names[i])
       IN  IF made.errno # ""
           THEN Raise(made.fs, logged, "OSError", TRUE, "included")
           ELSE create_directories_loop(made.fs, names, verbose, i + 1,
                  IF Truthy(verbose)
                  THEN Append(logged, Info("create_directories", names[i]))
                  ELSE logged)

\* verbose carries no annotation: only path_to_directories is checked
create_directories_call(f, dirs, verbose) ==
  ensure_annotations(dirs.ty = "list", f,
                     create_directories_loop(f, dirs.names, verbose, 1, << >>))

\* a save_json that serialises with json.dumps before it opens the file
save_json_dumps_first(f, name, data) ==
  LET dump == iterencode(data, 0)
      opened == open_w(f, name)
      written == [opened.fs EXCEPT ![name].data = Concat(dump.chunks)]
  IN  CASE ~dump.ok -> Raise(f, << >>, "ValueError", TRUE, "included")
        [] opened.errno # "" -> Raise(f, << >>, "ValueError", TRUE, "included")
        [] OTHER -> Return(written, << Info("save_json", name) >>, PyNone)

\* try block of save_json
save_json_try(f, name, data) ==
  LET opened == open_w(f, name)
      dump == iterencode(data, 0)
      written == [opened.fs EXCEPT ![name].data = Concat(dump.chunks)]
  IN  CASE opened.errno # "" -> Raise(f, << >>, "ValueError", TRUE, "included")
        [] ~dump.ok -> Raise(written, << >>, "ValueError", TRUE, "included")
        [] OTHER -> Return(written, << Info("save_json", name) >>, PyNone)

save_json_call(f, path, data) ==
  ensure_annotations(path.ty = "Path" /\ data.t = "dict", f,
                     save_json_try(f, path.name, data))

\* a load_json whose except clause leaves FileNotFoundError out
load_json_uncaught(f, name) ==
  LET e == open_r(f, name)
      content == loads(f[name].data)
      box == ConfigBox(content.val)
      logged == << Info("load_json", name) >>
  IN  CASE e # "" -> Raise(f, << >>, ErrnoExc(e), TRUE, "raw")
        [] ~Decodable(f[name].data) ->
             Raise(f, << >>, "UnicodeDecodeError", FALSE, "raw")
        [] ~content.ok -> Raise(f, << >>, "ValueError", TRUE, "included")
        [] box.exc # "" -> Raise(f, logged, box.exc, FALSE, "raw")
        [] OTHER -> Return(f, logged, box.val)

\* try block of load_json
load_json_try(f, name) ==
  LET e == open_r(f, name)
      content == loads(f[name].data)
      box == ConfigBox(content.val)
      logged == << Info("load_json", name) >>
  IN  CASE e = "ENOENT" -> Raise(f, << >>, "ValueError", TRUE, "included")
        [] e # "" -> Raise(f, << >>, ErrnoExc(e), TRUE, "raw")
        [] ~Decodable(f[name].data) ->
             Raise(f, << >>, "UnicodeDecodeError", FALSE, "raw")
        [] ~content.ok -> Raise(f, << >>, "ValueError", TRUE, "included")
        [] box.exc # "" -> Raise(f, logged, box.exc, FALSE, "raw")
        [] OTHER -> Return(f, logged, box.val)

load_json_call(f, path) ==
  ensure_annotations(path.ty = "Path", f, load_json_try(f, path.name))

\* isinstance(value, typing.Any), which the decorator evaluates for an
\* argument or a return value annotated Any: the library versions differ,
\* the test either accepts every value or raises TypeError
AnyChecks == {"accepts", "TypeError"}

\* try block of save_bin
save_bin_try(f, data, name) ==
  LET opened == open_w(f, name)
      header == [opened.fs EXCEPT ![name].data = PickleHeader]
      written == [opened.fs EXCEPT ![name].data = PickleHeader \o PickleBody(data)]
  IN  CASE opened.errno # "" -> Raise(f, << >>, "ValueError", TRUE, "included")
        [] ~Picklable(data) -> Raise(header, << >>, "ValueError", TRUE, "included")
        [] OTHER -> Return(written, << Info("save_bin", name) >>, PyNone)

save_bin_call(f, data, path, any) ==
  IF any = "TypeError" THEN Raise(f, << >>, "TypeError", FALSE, "own")
  ELSE ensure_annotations(path.ty = "Path", f, save_bin_try(f, data, path.name))

\* try block of load_bin
load_bin_try(f, name) ==
  LET e == open_r(f, name)
      data == Unpickle(f[name].data)
  IN  CASE e # "" -> Raise(f, << >>, "ValueError", TRUE, "included")
        [] ~data.ok -> Raise(f, << >>, "ValueError", TRUE, "included")
        [] OTHER -> Return(f, << Info("load_bin", name) >>, data.val)

load_bin_call(f, path, any) ==
  LET out == ensure_annotations(path.ty = "Path", f, load_bin_try(f, path.name))
  IN  IF out.exc = "" /\ any = "TypeError"
      THEN Raise(out.fs, out.logged, "TypeError", FALSE, "own")
      ELSE out

\* rounding an exact half upwards
round_half_up(a, b) == (2 * a + b) \div (2 * b)

\* round(a / b): Python rounds an exact half to the even integer
round(a, b) ==
  LET q == a \div b
      r == a % b
  IN  CASE 2 * r < b -> q
        [] 2 * r > b -> q + 1
        [] OTHER -> IF q % 2 = 0 THEN q ELSE q + 1

\* f"~ {size_in_kb} KB"
SizeText(n) == << 126, 32 >> \o IntStr(n) \o << 32, 75, 66 >>

\* try block of get_size
get_size_try(f, name, dirsize) ==
  LET e == stat(f, name)
      size == IF f[name].kind = "dir" THEN dirsize ELSE Len(f[name].data)
  IN  CASE e = "ENOENT" -> Raise(f, << >>, "FileNotFoundError", TRUE, "dropped")
        [] e # "" -> Raise(f, << >>, ErrnoExc(e), TRUE, "raw")
        [] OTHER -> Return(f, << >>, PyStr(SizeText(round(size, KB))))

get_size_call(f, path, dirsize) ==
  ensure_annotations(path.ty = "Path", f, get_size_try(f, path.name, dirsize))

\* try block of decodeImage
decodeImage_try(f, imgstring, name) ==
  LET imgdata == b64decode(imgstring.s)
      opened == open_w(f, name)
      written == [opened.fs EXCEPT ![name].data = imgdata.val]
  IN  CASE ~imgdata.ok -> Raise(f, << >>, "ValueError", FALSE, "included")
        [] opened.errno # "" -> Raise(f, << >>, "ValueError", TRUE, "included")
        [] OTHER -> Return(written, << Info("decodeImage", name) >>, PyNone)

decodeImage_call(f, imgstring, path) ==
  ensure_annotations(imgstring.t = "str" /\ path.ty = "Path", f,
                     decodeImage_try(f, imgstring, path.name))

\* try block of encodeImageIntoBase64
encodeImageIntoBase64_try(f, name) ==
  LET e == open_r(f, name)
  IN  CASE e = "ENOENT" -> Raise(f, << >>, "FileNotFoundError", TRUE, "dropped")
        [] e # "" -> Raise(f, << >>, "ValueError", TRUE, "included")
        [] OTHER -> Return(f, << >>, PyStr(b64encode(f[name].data)))

encodeImageIntoBase64_call(f, path) ==
  ensure_annotations(path.ty = "Path", f,
                     encodeImageIntoBase64_try(f, path.name))

(***************************************************************************)
(* The inputs the model draws.                                             *)
(***************************************************************************)
\* a Path for every path, and a str where a Path is declared
PathArgs == {PathArg("Path", p) : p \in Paths} \cup {PathArg("str", "g")}

RECURSIVE SeqsUpTo(_, _)
\* the sequences over S of length at most n
SeqsUpTo(S, n) ==
  IF n = 0 THEN {<< >>}
  ELSE SeqsUpTo(S, n - 1)
         \cup {Append(q, x) : q \in {r \in SeqsUpTo(S, n - 1) : Len(r) = n - 1},
                              x \in S}

\* a list of paths, and a tuple where a list is declared
DirArgs ==
  {[ty |-> "list", names |-> q] : q \in SeqsUpTo({"d", "d/f"}, MaxList)}
    \cup {[ty |-> "tuple", names |-> << "d" >>]}

\* True, False, and a str where a bool is documented
VerboseArgs == {PyBool(TRUE), PyBool(FALSE), PyStr(Str(<< "n", "o" >>))}

Key(c) == PyStr(Str(<< c >>))

\* dicts for save_json, and a list where a dict is declared
JsonData ==
  { PyDict(<< >>, << >>),
    PyDict(<< Key("a") >>, << PyInt(1) >>),
    PyDict(<< Key("a"), Key("b") >>,
           << PyList(<< PyInt(-12), Key("b") >>),
              PyDict(<< Key("c") >>, << PyNone >>) >>),
    PyDict(<< PyStr(Str(<< "q", "\"" >>)) >>, << PyBool(TRUE) >>),
    PyDict(<< PyInt(1) >>, << Key("a") >>),
    PyDict(<< PyInt(1), Key("1") >>, << Key("a"), Key("b") >>),
    PyDict(<< Key("a") >>, << PyTuple(<< PyInt(1) >>) >>),
    PyDict(<< Key("a"), Key("b") >>, << PyInt(1), PySet >>),
    PyList(<< PyInt(1) >>) }

\* objects for save_bin
BinData == {PyInt(7), PyFunction}

\* base64 of "a: 1", "{}", "null", "[1]" and ""; a string that does not
\* decode; bytes where a str is declared
ImgData ==
  { PyStr(Str(<< "Y", "T", "o", "g", "M", "Q", "=", "=" >>)),
    PyStr(Str(<< "e", "3", "0", "=" >>)),
    PyStr(Str(<< "b", "n", "V", "s", "b", "A", "=", "=" >>)),
    PyStr(Str(<< "W", "z", "F", "d" >>)),
    PyStr(<< >>),
    PyStr(Str(<< "Y", "Q" >>)),
    PyBytes(Str(<< "e", "3", "0", "=" >>)) }

\* the file systems a run starts from
InitialFs ==
  { f \in [Paths -> { Absent, Dir(TRUE), Dir(FALSE),
                      File(TRUE, Str(<< "a", ":", " ", "1" >>)),
                      File(TRUE, << 123, 125 >>),
                      File(FALSE, Str(<< "n", "u", "l", "l" >>)) }] :
      /\ f["d"] \in {Absent, Dir(TRUE), Dir(FALSE),
                     File(TRUE, Str(<< "a", ":", " ", "1" >>))}
      /\ f["d/f"] \in {Absent, File(TRUE, << 123, 125 >>)}
      /\ f["d/f"] # Absent => f["d"].kind = "dir"
      /\ f["g"] \in {Absent, File(FALSE, Str(<< "n", "u", "l", "l" >>))} }

(***************************************************************************)
(* The state: the file system, the log, the calls made so far, each with   *)
(* its arguments, the file system it found and what it did, and, for the   *)
(* calls of save_json that run side by side, where each of them stands.    *)
(***************************************************************************)
VARIABLES fs, log, hist, w

vars == << fs, log, hist, w >>

NoPath == PathArg("Path", "")
NoDirs == [ty |-> "list", names |-> << >>]

Call(op, path, dirs, data, verbose, out) ==
  [op |-> op, path |-> path, dirs |-> dirs, data |-> data, verbose |-> verbose,
   before |-> fs, exc |-> out.exc, msgPath |-> out.msgPath, cause |-> out.cause,
   ret |-> out.ret, logged |-> out.logged]

\* one call, from the caller's side
Do(op, path, dirs, data, verbose, out) ==
  /\ Len(hist) < MaxCalls
  /\ fs' = out.fs
  /\ log' = log \o out.logged
  /\ hist' = Append(hist, Call(op, path, dirs, data, verbose, out))
  /\ UNCHANGED w

read_yaml ==
  \E path \in PathArgs :
     Do("read_yaml", path, NoDirs, PyNone, PyNone, read_yaml_call(fs, path))

create_directories ==
  \E dirs \in DirArgs, verbose \in VerboseArgs :
     Do("create_directories", NoPath, dirs, PyNone, verbose,
        create_directories_call(fs, dirs, verbose))

save_json ==
  \E path \in PathArgs, data \in JsonData :
     Do("save_json", path, NoDirs, data, PyNone, save_json_call(fs, path, data))

load_json ==
  \E path \in PathArgs :
     Do("load_json", path, NoDirs, PyNone, PyNone, load_json_call(fs, path))

save_bin ==
  \E path \in PathArgs, data \in BinData, any \in AnyChecks :
     Do("save_bin", path, NoDirs, data, PyNone,
        save_bin_call(fs, data, path, any))

load_bin ==
  \E path \in PathArgs, any \in AnyChecks :
     Do("load_bin", path, NoDirs, PyNone, PyNone, load_bin_call(fs, path, any))

get_size ==
  \E path \in PathArgs, dirsize \in DirSizes :
     Do("get_size", path, NoDirs, PyNone, PyNone,
        get_size_call(fs, path, dirsize))

decodeImage ==
  \E path \in PathArgs, imgstring \in ImgData :
     Do("decodeImage", path, NoDirs, imgstring, PyNone,
        decodeImage_call(fs, imgstring, path))

encodeImageIntoBase64 ==
  \E path \in PathArgs :
     Do("encodeImageIntoBase64", path, NoDirs, PyNone, PyNone,
        encodeImageIntoBase64_call(fs, path))

(***************************************************************************)
(* Two calls of save_json side by side, step by step: open(path, "w")      *)
(* truncates; json.dump hands the chunks to the file object, which keeps   *)
(* them in its buffer (the texts are far shorter than the buffer); leaving *)
(* the with block flushes the buffer at the descriptor's own offset, 0,    *)
(* and closes; then the entry is logged, or the TypeError is re-raised.    *)
(* closed, afterOther and lastClose record that this call has closed its   *)
(* file, and whether the other call had closed its own when this one       *)
(* opened, and when this one closed.                                       *)
(***************************************************************************)
Writers == {1, 2}
Other(i) == 3 - i

\* k: the next chunk of the encoder; buf: the file object's buffer
Idle ==
  [pc |-> "idle", name |-> "", data |-> PyNone, k |-> 1, buf |-> << >>,
   exc |-> "", closed |-> FALSE, afterOther |-> FALSE, lastClose |-> FALSE]

\* data written at offset 0 of a file that holds old
WriteAt0(old, data) ==
  IF Len(data) >= Len(old) THEN data
  ELSE data \o SubSeq(old, Len(data) + 1, Len(old))

\* with open(path, "w") as f:
save_json_open(i) ==
  /\ w[i].pc = "open"
  /\ LET opened == open_w(fs, w[i].name)
     IN  IF opened.errno # ""
         THEN /\ w' = [w EXCEPT ![i].pc = "done", ![i].exc = "ValueError"]
              /\ UNCHANGED fs
         ELSE /\ fs' = opened.fs
              /\ w' = [w EXCEPT ![i].pc = "dump",
                                ![i].afterOther = w[Other(i)].closed]
  /\ UNCHANGED << log, hist >>

\* json.dump: for chunk in iterable: fp.write(chunk)
save_json_write(i) ==
  /\ w[i].pc = "dump"
  /\ LET dump == iterencode(w[i].data, 0)
     IN  IF w[i].k <= Len(dump.chunks)
         THEN w' = [w EXCEPT ![i].k = @ + 1,
                             ![i].buf = @ \o dump.chunks[w[i].k]]
         ELSE w' = [w EXCEPT ![i].pc = "close",
                             ![i].exc = IF dump.ok THEN "" ELSE "ValueError"]
  /\ UNCHANGED << fs, log, hist >>

\* the end of the with block: flush and close
save_json_close(i) ==
  /\ w[i].pc = "close"
  /\ fs' = [fs EXCEPT ![w[i].name].data = WriteAt0(@, w[i].buf)]
  /\ w' = [w EXCEPT ![i].pc = IF w[i].exc = "" THEN "log" ELSE "done",
                    ![i].closed = TRUE,
                    ![i].lastClose = w[Other(i)].closed]
  /\ UNCHANGED << log, hist >>

\* logger.info(f"JSON file saved at: {path}")
save_json_log(i) ==
  /\ w[i].pc = "log"
  /\ log' = Append(log, Info("save_json", w[i].name))
  /\ w' = [w EXCEPT ![i].pc = "done"]
  /\ UNCHANGED << fs, hist >>

Init ==
  /\ fs \in InitialFs
  /\ log = << >>
  /\ hist = << >>
  /\ w = [i \in Writers |-> Idle]

Next ==
  \/ read_yaml
  \/ create_directories
  \/ save_json
  \/ load_json
  \/ save_bin
  \/ load_bin
  \/ get_size
  \/ decodeImage
  \/ encodeImageIntoBase64

Spec == Init /\ [][Next]_vars

(***************************************************************************)
(* get_size alone, on a file of every size up to MaxSize.                  *)
(***************************************************************************)
SizeInit ==
  /\ \E b \in 0..MaxSize :
        fs = [p \in Paths |->
                IF p = "g" THEN File(TRUE, [i \in 1..b |-> 0]) ELSE Absent]
  /\ log = << >>
  /\ hist = << >>
  /\ w = [i \in Writers |-> Idle]

SizeNext == get_size

SpecSize == SizeInit /\ [][SizeNext]_vars

(***************************************************************************)
(* Two concurrent callers of save_json.                                    *)
(***************************************************************************)
ConcPaths == {"g", "d/f"}

ConcData ==
  { PyDict(<< >>, << >>),
    PyDict(<< Key("a") >>, << PyInt(1) >>),
    PyDict(<< Key("a"), Key("b") >>,
           << PyList(<< PyInt(-12), Key("b") >>),
              PyDict(<< Key("c") >>, << PyNone >>) >>),
    PyDict(<< Key("a"), Key("b") >>, << PyInt(1), PySet >>) }

ConcInit ==
  /\ fs \in InitialFs
  /\ log = << >>
  /\ hist = << >>
  /\ w \in [Writers -> {[Idle EXCEPT !.pc = "open", !.name = p, !.data = d] :
                          p \in ConcPaths, d \in ConcData}]

ConcNext ==
  \E i \in Writers :
     \/ save_json_open(i)
     \/ save_json_write(i)
     \/ save_json_close(i)
     \/ save_json_log(i)

SpecConc == ConcInit /\ [][ConcNext]_vars

(***************************************************************************)
(* The claims.  A claim about calls is stated over hist: call i found the  *)
(* file system hist[i].before and left After(i).                           *)
(***************************************************************************)
Calls == 1..Len(hist)
After(i) == IF i = Len(hist) THEN fs ELSE hist[i + 1].before

\* call i + 1 follows call i with nothing in between, on the same path
NextOnSamePath(i, op1, op2) ==
  /\ i + 1 <= Len(hist)
  /\ hist[i].op = op1
  /\ hist[i + 1].op = op2
  /\ hist[i + 1].path = hist[i].path

RECURSIVE JsonNative(_)
\* None, a bool, an int, a str, a list of such values, or a dict of such
\* values whose keys are strs
JsonNative(v) ==
  CASE v.t \in {"NoneType", "bool", "int", "str"} -> TRUE
    [] v.t = "list" -> \A i \in 1..Len(v.items) : JsonNative(v.items[i])
    [] v.t = "dict" ->
         /\ \A i \in 1..Len(v.keys) : v.keys[i].t = "str"
         /\ \A i \in 1..Len(v.items) : JsonNative(v.items[i])
    [] OTHER -> FALSE

\* C1 as stated: whenever save_json(p, data) succeeds and load_json(p) is
\* the next call, load_json succeeds and returns a mapping equal to data.
C1_RoundTripAnyDict ==
  \A i \in Calls :
     NextOnSamePath(i, "save_json", "load_json") /\ hist[i].exc = ""
       => /\ hist[i + 1].exc = ""
          /\ PyEq(hist[i + 1].ret, hist[i].data)

\* C1 amended: whenever save_json(p, data) succeeds for a dict whose keys
\* are strs at every level and whose values are None, bools, ints, strs,
\* lists or such dicts, and load_json(p) is the next call, load_json
\* succeeds and returns a mapping equal to data.
C1_RoundTripNative ==
  \A i \in Calls :
     /\ NextOnSamePath(i, "save_json", "load_json")
     /\ hist[i].exc = ""
     /\ JsonNative(hist[i].data)
     => /\ hist[i + 1].exc = ""
        /\ PyEq(hist[i + 1].ret, hist[i].data)

\* a nested dict with a negative int, a str and None went through the file
C1_Witness ==
  \E i \in Calls :
     /\ NextOnSamePath(i, "save_json", "load_json")
     /\ hist[i].exc = ""
     /\ JsonNative(hist[i].data)
     /\ Len(hist[i].data.keys) = 2
     /\ hist[i + 1].exc = ""
     /\ hist[i + 1].ret.items[1].items[1] = PyInt(-12)

\* the file at p can be opened for reading
Readable(f, p) ==
  /\ f[p].kind = "file"
  /\ f[p].mode
  /\ Parent(p) = Root \/ (f[Parent(p)].kind = "dir" /\ f[Parent(p)].mode)

\* the documents that are empty or null
NullDocs == { << >>, << 10 >>, << 126 >>, Str(<< "n", "u", "l", "l" >>) }

\* C2: read_yaml on a file that exists (and can be opened) and whose YAML
\* document is empty or null fails with the ValueError that names the path,
\* logs nothing and returns nothing; and no call of read_yaml ever returns
\* an empty or falsy mapping.
C2_EmptyYamlFails ==
  \A i \in Calls :
     hist[i].op = "read_yaml" /\ hist[i].path.ty = "Path"
       => /\ ( /\ Readable(hist[i].before, hist[i].path.name)
               /\ hist[i].before[hist[i].path.name].data \in NullDocs
               => /\ hist[i].exc = "ValueError"
                  /\ hist[i].cause = "own"
                  /\ hist[i].msgPath
                  /\ hist[i].logged = << >> )
          /\ ( hist[i].exc = ""
               => hist[i].ret.t = "dict" /\ hist[i].ret.keys # << >> )

\* read_yaml failed on a readable file that holds the null document
C2_Witness ==
  /\ Len(hist) = 2
  /\ hist[2].op = "read_yaml"
  /\ hist[2].exc = "ValueError"
  /\ Readable(hist[2].before, hist[2].path.name)
  /\ hist[2].before[hist[2].path.name].data = Str(<< "n", "u", "l", "l" >>)

\* nothing at p, and the lookup says so (ENOENT)
NoEntry(f, p) ==
  /\ f[p].kind = "absent"
  /\ \/ Parent(p) = Root
     \/ f[Parent(p)].kind = "absent"
     \/ f[Parent(p)].kind = "dir" /\ f[Parent(p)].mode

Readers ==
  {"read_yaml", "load_json", "load_bin", "get_size", "encodeImageIntoBase64"}

\* C3 as stated: each of the five operations that need an existing file,
\* called with a Path at which nothing exists, fails with FileNotFoundError.
C3_AllNotFound ==
  \A i \in Calls :
     /\ hist[i].op \in Readers
     /\ hist[i].path.ty = "Path"
     /\ NoEntry(hist[i].before, hist[i].path.name)
     => hist[i].exc = "FileNotFoundError"

\* C3 amended: called with a Path at which nothing exists (the lookup
\* answers ENOENT), read_yaml, get_size and encodeImageIntoBase64 fail with
\* FileNotFoundError, load_json and load_bin fail with ValueError; and
\* whenever there is no entry at the path, none of the five returns a value.
C3_NotFoundOrValueError ==
  \A i \in Calls :
     hist[i].op \in Readers /\ hist[i].path.ty = "Path"
       => /\ ( NoEntry(hist[i].before, hist[i].path.name)
               => hist[i].exc =
                    IF hist[i].op \in {"load_json", "load_bin"}
                    THEN "ValueError" ELSE "FileNotFoundError" )
          /\ ( hist[i].before[hist[i].path.name].kind = "absent"
               => hist[i].exc # "" /\ hist[i].ret = PyNone )

\* load_json and get_size were both called where nothing exists
C3_Witness ==
  /\ Len(hist) = 2
  /\ hist[1].op = "load_json" /\ hist[2].op = "get_size"
  /\ hist[1].path = PathArg("Path", "g") /\ hist[2].path = PathArg("Path", "d/f")
  /\ NoEntry(hist[1].before, "g") /\ NoEntry(hist[2].before, "d/f")
  /\ hist[1].exc = "ValueError" /\ hist[2].exc = "FileNotFoundError"

\* the classes an exception is an instance of
Bases(exc) ==
  CASE exc \in {"FileNotFoundError", "NotADirectoryError", "PermissionError",
                "IsADirectoryError", "FileExistsError"} -> {exc, "OSError"}
    [] exc \in {"BoxValueError", "UnicodeDecodeError"} -> {exc, "ValueError"}
    [] OTHER -> {exc}

\* C4: whenever a library or OS failure inside one of the nine operations
\* ends the call, the caller sees a FileNotFoundError or a ValueError (an
\* OSError from create_directories), newly raised, whose message names the
\* path and quotes the failure (a FileNotFoundError raised for a missing
\* file counts as naming its cause).
C4_EveryErrorRewrapped ==
  \A i \in Calls :
     hist[i].exc # "" /\ hist[i].cause # "own"
       => /\ Bases(hist[i].exc)
               \cap (IF hist[i].op = "create_directories"
                     THEN {"OSError", "ValueError", "FileNotFoundError"}
                     ELSE {"ValueError", "FileNotFoundError"}) # {}
          /\ hist[i].msgPath
          /\ \/ hist[i].cause = "included"
             \/ hist[i].cause = "dropped" /\ hist[i].exc = "FileNotFoundError"

\* the directories present
DirSet(f) == {p \in Paths : f[p].kind = "dir"}

\* C5: whenever create_directories(paths) succeeds and the next call is
\* create_directories with the same list, that call succeeds too and leaves
\* the same set of directories as the first.
C5_CreateDirectoriesIdempotent ==
  \A i \in Calls :
     /\ i + 1 <= Len(hist)
     /\ hist[i].op = "create_directories"
     /\ hist[i + 1].op = "create_directories"
     /\ hist[i + 1].dirs = hist[i].dirs
     /\ hist[i].exc = ""
     => /\ hist[i + 1].exc = ""
        /\ DirSet(After(i + 1)) = DirSet(After(i))

\* the first call made d and d/f, the second found them
C5_Witness ==
  /\ Len(hist) = 2
  /\ hist[1].op = "create_directories" /\ hist[2].op = "create_directories"
  /\ hist[1].dirs = [ty |-> "list", names |-> << "d/f", "d" >>]
  /\ hist[2].dirs = hist[1].dirs
  /\ DirSet(hist[1].before) = {}
  /\ hist[1].exc = "" /\ hist[2].exc = ""
  /\ DirSet(fs) = {"d", "d/f"}

\* an argument of call c is not of the type declared for it
IllTyped(c) ==
  \/ c.op # "create_directories" /\ c.path.ty # "Path"
  \/ c.op = "create_directories" /\ (c.dirs.ty # "list" \/ c.verbose.t # "bool")
  \/ c.op = "save_json" /\ c.data.t # "dict"
  \/ c.op = "decodeImage" /\ c.data.t # "str"

\* C6: a call with an argument of another type than the declared one (the
\* verbose flag of create_directories included) fails with a type error and
\* leaves the file system and the log as they were.
C6_IllTypedCallRejected ==
  \A i \in Calls :
     IllTyped(hist[i])
       => /\ hist[i].exc \in {"EnsureError", "TypeError"}
          /\ After(i) = hist[i].before
          /\ hist[i].logged = << >>

\* C7 as stated: every successful call appends exactly one INFO entry, and
\* the entry names the call's path argument.
C7_OneEntryPerCall ==
  \A i \in Calls :
     hist[i].exc = ""
       => /\ Len(hist[i].logged) = 1
          /\ hist[i].logged[1].level = "INFO"
          /\ hist[i].logged[1].path \in
               {hist[i].path.name}
                 \cup {hist[i].dirs.names[k] : k \in 1..Len(hist[i].dirs.names)}

Loggers ==
  {"read_yaml", "save_json", "load_json", "save_bin", "load_bin", "decodeImage"}

\* C7 amended: a successful call of read_yaml, save_json, load_json,
\* save_bin, load_bin or decodeImage appends exactly one INFO entry naming
\* its path; a successful call of get_size or encodeImageIntoBase64 appends
\* none; a successful call of create_directories appends one INFO entry per
\* path of the list, in order, when verbose is truthy and none otherwise.
\* The log is the entries of the calls, in the order of the calls.
C7_EntriesPerOperation ==
  /\ \A i \in Calls :
        hist[i].exc = ""
          => hist[i].logged =
               CASE hist[i].op \in Loggers ->
                      << [level |-> "INFO", op |-> hist[i].op,
                          path |-> hist[i].path.name] >>
                 [] hist[i].op = "create_directories"
                      /\ hist[i].verbose \notin {PyBool(FALSE)} ->
                      [k \in 1..Len(hist[i].dirs.names) |->
                         [level |-> "INFO", op |-> "create_directories",
                          path |-> hist[i].dirs.names[k]]]
                 [] OTHER -> << >>
  /\ log = Concat([i \in Calls |-> hist[i].logged])

\* a verbose call on two paths logged twice, then get_size logged nothing
C7_Witness ==
  /\ Len(hist) = 2
  /\ hist[1].op = "create_directories" /\ hist[1].exc = ""
  /\ hist[1].verbose = PyBool(TRUE)
  /\ Len(hist[1].dirs.names) = 2
  /\ hist[2].op = "get_size" /\ hist[2].exc = ""
  /\ Len(log) = 2

RECURSIVE Repair(_)
\* the value with None in place of what json cannot serialise
Repair(v) ==
  CASE v.t \in {"NoneType", "bool", "int", "str"} -> v
    [] v.t \in {"list", "tuple"} ->
         [v EXCEPT !.items = [i \in 1..Len(v.items) |-> Repair(v.items[i])]]
    [] v.t = "dict" ->
         [v EXCEPT !.items = [i \in 1..Len(v.items) |-> Repair(v.items[i])]]
    [] OTHER -> PyNone

\* the emptied or created file of a writing call can be opened
Writable(f, p) ==
  /\ f[p].kind = "absent" \/ (f[p].kind = "file" /\ f[p].mode)
  /\ Parent(p) = Root \/ (f[Parent(p)].kind = "dir" /\ f[Parent(p)].mode)

\* C10: save_json called on a path that holds a file (which it can open),
\* with a dict holding a value json cannot serialise, fails with ValueError
\* and leaves in the file a proper prefix of the JSON text, whatever the
\* file held; decodeImage called with a string that does not decode fails
\* with ValueError and leaves the file system as it was.
C10_FailedSaveTruncates ==
  \A i \in Calls :
     /\ ( /\ hist[i].op = "save_json"
          /\ ~IllTyped(hist[i])
          /\ hist[i].before[hist[i].path.name].kind = "file"
          /\ Writable(hist[i].before, hist[i].path.name)
          /\ Repair(hist[i].data) # hist[i].data
          => LET text == Concat(iterencode(Repair(hist[i].data), 0).chunks)
                 left == After(i)[hist[i].path.name].data
             IN  /\ hist[i].exc = "ValueError"
                 /\ IsPrefix(left, text)
                 /\ left # text )
     /\ ( /\ hist[i].op = "decodeImage"
          /\ ~IllTyped(hist[i])
          /\ hist[i].data = PyStr(Str(<< "Y", "Q" >>))
          => /\ hist[i].exc = "ValueError"
             /\ After(i) = hist[i].before )

\* a file holding "a: 1" holds the text up to the set after the failed call
C10_Witness ==
  /\ Len(hist) = 1
  /\ hist[1].op = "save_json"
  /\ hist[1].path = PathArg("Path", "d")
  /\ hist[1].before["d"] = File(TRUE, Str(<< "a", ":", " ", "1" >>))
  /\ hist[1].exc = "ValueError"
  /\ fs["d"].data =
       Str(<< "{", "\n", " ", " ", " ", " ", "\"", "a", "\"", ":", " ", "1",
              ",", "\n", " ", " ", " ", " ", "\"", "b", "\"", ":", " " >>)

\* C8: get_size on a file of b bytes returns "~ N KB" with N the integer
\* nearest to b / 1024, an exact half going to the even one: 512 bytes give
\* 0, 1536 give 2, 2048 give 2 and 1 byte gives 0.
C8_SizeRoundsHalfEven ==
  \A i \in Calls :
     /\ hist[i].op = "get_size"
     /\ hist[i].exc = ""
     /\ hist[i].before[hist[i].path.name].kind = "file"
     => LET b == Len(hist[i].before[hist[i].path.name].data)
            text == hist[i].ret.s
        IN  /\ hist[i].ret.t = "str"
            /\ \E n \in 0..(b \div 1024 + 1) :
                  /\ 2 * (1024 * n - b) <= 1024
                  /\ 2 * (b - 1024 * n) <= 1024
                  /\ (2 * (1024 * n - b) = 1024 \/ 2 * (b - 1024 * n) = 1024)
                       => n % 2 = 0
                  /\ text = Str(<< "~", " " >>) \o IntStr(n) \o Str(<< " ", "K", "B" >>)
            /\ b \in {1, 512} => text = Str(<< "~", " ", "0", " ", "K", "B" >>)
            /\ b \in {1536, 2048} => text = Str(<< "~", " ", "2", " ", "K", "B" >>)

\* a file of 1536 bytes was measured
C8_Witness ==
  \E i \in Calls :
     /\ hist[i].op = "get_size"
     /\ hist[i].path = PathArg("Path", "g")
     /\ Len(hist[i].before["g"].data) = 1536
     /\ hist[i].ret = PyStr(Str(<< "~", " ", "2", " ", "K", "B" >>))

\* both calls of save_json are over, without an error, on the same path
BothSaved ==
  /\ \A i \in Writers : w[i].pc = "done" /\ w[i].exc = ""
  /\ w[1].name = w[2].name
  /\ w[1].data # w[2].data

JsonText(i) == Concat(iterencode(w[i].data, 0).chunks)
LastToClose == CHOOSE i \in Writers : w[i].lastClose

\* C9 as stated: when two calls of save_json on one path with different
\* data have both succeeded, the file holds exactly the JSON text of the
\* call that finished last, never a mixture of the two texts.
C9_LastWriterWins ==
  BothSaved
    => /\ fs[w[1].name].data \in {JsonText(1), JsonText(2)}
       /\ fs[w[1].name].data = JsonText(LastToClose)

\* C9 amended: when two calls of save_json on one path with different data
\* have both succeeded, the file starts with the complete JSON text of the
\* call that closed last; it holds exactly that text when that call opened
\* the file after the other had closed it (the calls did not overlap), or
\* when the other text is not the longer one.
C9_LastWriterWinsUnlessOverlap ==
  BothSaved
    => LET last == LastToClose
           data == fs[w[1].name].data
       IN  /\ IsPrefix(JsonText(last), data)
           /\ w[last].afterOther => data = JsonText(last)
           /\ Len(JsonText(Other(last))) <= Len(JsonText(last))
                => data = JsonText(last)

\* the second call opened after the first had closed, and wrote the shorter text
C9_Witness ==
  /\ BothSaved
  /\ w[LastToClose].afterOther
  /\ Len(JsonText(Other(LastToClose))) > Len(JsonText(LastToClose))
  /\ fs[w[1].name].data = JsonText(LastToClose)
=============================================================================
